---- MODULE Spec2Model ----
(***************************************************************************)
(* The join-key vault of tero-platform.                                    *)
(*                                                                         *)
(*   service/key_vault.rs  the vault over a DashMap, with its Reclaimer    *)
(*   common/key_vault.rs   the vault over a tokio RwLock<HashSet>, the one *)
(*                         tests/key_vault.rs exercises                    *)
(*   game/handlers.rs      the two handlers that free a key                *)
(*   system_log/builder.rs log_async, the way events leave the vault       *)
(*                                                                         *)
(* A word is a sequence of tokens, the pieces of the string between its    *)
(* spaces: "Red" is <<"Red">>.  format!("{} {}", p, s) is then the         *)
(* concatenation of the two token sequences and split(" ") the sequence    *)
(* itself.                                                                 *)
(***************************************************************************)
EXTENDS Integers, Sequences, FiniteSets, TLC

VARIABLES
    \* the vault's fields (both vaults have the same three)
    word_count, prefix_words, suffix_words,
    \* service/key_vault.rs: the DashMap, the clock, the callers, the Reclaimer
    active_keys, now,
    pc, key, pos, result, held, emitted, log_task, reply,
    rpc, time, keys_before, next_tick, aged,
    \* history of the run, kept to state the claims
    released, saw_full, after_remove,
    \* common/key_vault.rs: the HashSet, its RwLock, the callers
    rw_active_keys, rw_readers, rw_writer, rw_waiters,
    rw_pc, rw_key, rw_result, rw_emitted, rw_oks, rw_released,
    \* startup: what the Vocabulary Store answered and what load_words returned
    db_rows, load,
    \* game/handlers.rs: the last key string sent to free_game_key or
    \* persist_interactive_game, the answer, and the history of that call
    \* (call_parity alternates at every handler call)
    request, response, was_active, again, call_parity,
    \* key_vault/key_vault.rs: the two pools of words, the active keys, and per
    \* caller the position in its call, the words it carries, whether the key
    \* it removed was active and its result; the refill task and the used
    \* words it has read
    cw_prefix_words, cw_suffix_words, cw_active_keys,
    cw_pc, cw_prefix, cw_suffix, cw_was_active, cw_result, cw_task, cw_used,
    \* key_generation/key_vault.rs: the ids in use, who holds a read guard of
    \* the lock, and per caller the position in its call, the two ids it chose
    \* and its result
    id_in_use, id_readers, id_pc, id_slots, id_result

vocabVars == <<word_count, prefix_words, suffix_words>>
callerVars == <<pc, key, pos, result, held, emitted, log_task, reply>>
reclaimVars == <<rpc, time, keys_before, next_tick, aged>>
ghostVars == <<released, saw_full, after_remove>>
dashVars == <<active_keys, now, callerVars, reclaimVars, ghostVars>>
rwVars == <<rw_active_keys, rw_readers, rw_writer, rw_waiters,
            rw_pc, rw_key, rw_result, rw_emitted, rw_oks, rw_released>>
handlerVars == <<request, response, was_active, again, call_parity>>
startVars == <<db_rows, load>>
cwVars == <<cw_prefix_words, cw_suffix_words, cw_active_keys,
            cw_pc, cw_prefix, cw_suffix, cw_was_active, cw_result, cw_task, cw_used>>
idVars == <<id_in_use, id_readers, id_pc, id_slots, id_result>>
oldVars == <<cwVars, idVars>>
extVars == <<startVars, handlerVars, oldVars>>
vars == <<vocabVars, dashVars, rwVars, extVars>>

(***************************************************************************)
(* Bounds of the model and constants of the program.                       *)
(***************************************************************************)
NumCallers == 2
MaxClockSteps == 2
MaxTokens == 3
CwMaxPool == 2
MaxDrawn == 2

Attempts == 100
Period == 3600
TTL == 3600
U8 == 2 ^ 8

Callers == 1..NumCallers
StartTime == 3 * Period
MaxNow == StartTime + MaxClockSteps * Period

\* The rows of the Vocabulary Store that get_word_sets returns.
WordSets ==
    { << << <<"Red">> >>, << <<"Fox">> >> >>,
      << << <<"Red">>, <<"Blue">> >>, << <<"Fox">>, <<"Owl">> >> >> }

NoKey == <<>>
None == [tag |-> "None", value |-> <<>>]
FullCapasity == [tag |-> "Err", value |-> <<"FullCapasity">>]
Ok(v) == [tag |-> "Ok", value |-> v]

(***************************************************************************)
(* load_words: the two lists must have the same length; word_count is the  *)
(* length narrowed to u8.                                                  *)
(***************************************************************************)
LoadWords(db_prefix, db_suffix) ==
    IF Len(db_prefix) # Len(db_suffix)
    THEN [tag |-> "Err", value |-> <<"IncompatibleLength">>]
    ELSE [tag |-> "Ok",
          word_count |-> Len(db_prefix) % U8,
          prefix_words |-> db_prefix,
          suffix_words |-> db_suffix]

\* what get_word_sets answers: the two lists, or the error of the query
Rows(db_prefix, db_suffix) == [tag |-> "Ok", prefix |-> db_prefix, suffix |-> db_suffix]
Unreachable == [tag |-> "Err", prefix |-> <<>>, suffix |-> <<>>]
NotAsked == [tag |-> "none", prefix |-> <<>>, suffix |-> <<>>]

\* a list of n different one-token words
Words(n) == [i \in 1..n |-> <<ToString(i)>>]

\* the answers tried at startup: empty lists, lists of equal and of different
\* lengths, lists of U8 words, a word repeated, words with a space in them
StoreAnswers ==
    { Rows(ws[1], ws[2]) : ws \in WordSets }
      \cup { Rows(<<>>, <<>>),
             Rows(<< <<"Red">> >>, <<>>),
             Rows(<<>>, << <<"Fox">> >>),
             Rows(<< <<"Red">>, <<"Blue">> >>, << <<"Fox">> >>),
             Rows(Words(U8), Words(U8)),
             Rows(<< <<"Red">>, <<"Red">> >>, << <<"Fox">>, <<"Owl">> >>),
             Rows(<< <<"Red">>, <<"Red", "Fox">> >>, << <<"Fox", "Owl">>, <<"Owl">> >>),
             Unreachable }

\* the key with its two words taken from the wrong lists
KeyAtSwapped(idx1, idx2) == <<suffix_words[idx2 + 1], prefix_words[idx1 + 1]>>

\* the key at a pair of 0-based indices
KeyAt(idx1, idx2) == <<prefix_words[idx1 + 1], suffix_words[idx2 + 1]>>

\* format!("{} {}", key.0, key.1)
Format(k) == k[1] \o k[2]

\* random_idx of the DashMap vault: both indices in 0..word_count
RandomIdx == (0 .. word_count - 1) \X (0 .. word_count - 1)

\* the order of the exhaustive scan: prefix outer loop, suffix inner loop
\* the pass stopping after the first row of pairs
CapacityOneRow == Len(suffix_words)
Capacity == Len(prefix_words) * Len(suffix_words)
\* the pass with the suffix loop outside and the prefix loop inside
ScanIdxSuffixOuter(n) == <<(n - 1) % Len(prefix_words), (n - 1) \div Len(prefix_words)>>
ScanIdx(n) == <<(n - 1) \div Len(suffix_words), (n - 1) % Len(suffix_words)>>
ScanKey(n) == KeyAt(ScanIdx(n)[1], ScanIdx(n)[2])

AllKeys == { KeyAt(x[1], x[2]) :
             x \in (0 .. Len(prefix_words) - 1) \X (0 .. Len(suffix_words) - 1) }

(***************************************************************************)
(* The DashMap operations; each is one atomic step of the map.             *)
(***************************************************************************)
key_active(m, k) == k \in DOMAIN m
MapInsert(m, k, v) == [x \in (DOMAIN m) \cup {k} |-> IF x = k THEN v ELSE m[x]]
\* remove that takes some entry out when k is not there
MapRemoveSome(m, k) ==
    IF k \in DOMAIN m \/ DOMAIN m = {} THEN [x \in (DOMAIN m) \ {k} |-> m[x]]
    ELSE [x \in (DOMAIN m) \ {CHOOSE y \in DOMAIN m : TRUE} |-> m[x]]
MapRemove(m, k) == [x \in (DOMAIN m) \ {k} |-> m[x]]
MapRetain(m, threshold) ==
    [x \in {y \in DOMAIN m : m[y] > threshold} |-> m[x]]
MapLen(m) == Cardinality(DOMAIN m)
EmptyMap == [x \in {} |-> 0]

IsFull(m) == AllKeys \subseteq DOMAIN m

\* usize subtraction: the difference, or on underflow the wrapped value
\* 2^64 - value (overflow = TRUE)
UsizeSub(a, b) ==
    IF a >= b THEN [overflow |-> FALSE, value |-> a - b]
              ELSE [overflow |-> TRUE, value |-> b - a]

(***************************************************************************)
(* log_async spawns a task that runs log and drops its error.  log_task[e] *)
(* is what becomes of the task spawned by the last event of emitter e (a   *)
(* caller, or 0 for the Reclaimer): log returns its own error before the   *)
(* write, the sink writes the event, the sink rejects it, or the write     *)
(* never completes.                                                        *)
(***************************************************************************)
SinkFates == {"written", "rejected", "never completes"}
NoSubject == "none"
SubjectIdRequired == "SubjectId is required for system logs"

\* SystemLogBuilder::log: an event without a subject is turned down before
\* create_system_log is called; fate is what the sink does when it is called
Log(event, fate) ==
    IF event.subject_id = NoSubject THEN SubjectIdRequired ELSE fate

LogAsync(e, event, fate) == [log_task EXCEPT ![e] = Log(event, fate)]

ExhaustedEvent ==
    [subject_id |-> NoSubject,
     action |-> "Create", ceverity |-> "Critical", function |-> "create_key",
     description |-> "Library failed to create random id.",
     count |-> UsizeSub(0, 0)]
CleanupEvent(removed_keys) ==
    [subject_id |-> NoSubject, action |-> "Delete", ceverity |-> "Warning",
     function |-> "spawn_vault_cleanup",
     description |-> "Cleaned up {} expired keys",
     count |-> removed_keys]

(***************************************************************************)
(* History: saw_full[c] tells whether the map held every pair at some      *)
(* instant of caller c's current (or last) create_key call.                *)
(***************************************************************************)
Track ==
    saw_full' = [c \in Callers |->
        CASE pc'[c] = "idle" /\ result'[c] # FullCapasity -> FALSE
          [] pc[c] = "idle" /\ pc'[c] = "idle" -> saw_full[c]
          [] pc[c] = "idle" /\ pc'[c] # "idle" -> IsFull(active_keys)
          [] OTHER -> saw_full[c] \/ IsFull(active_keys')]

(***************************************************************************)
(* create_key of the DashMap vault.  The hundred draws only read the map   *)
(* and count; nothing else can tell how many of them collided, so a run of *)
(* draws is one step: it ends at the first draw whose key is free, or      *)
(* after Attempts draws that all hit an active key.                        *)
(***************************************************************************)
RandomDraws(c) ==
    /\ pc[c] = "idle"
    /\ held[c] = NoKey
    /\ word_count > 0
    /\ Attempts > 0
    /\ \/ \E idx \in RandomIdx :
            /\ ~key_active(active_keys, KeyAt(idx[1], idx[2]))
            /\ key' = [key EXCEPT ![c] = KeyAt(idx[1], idx[2])]
            /\ pc' = [pc EXCEPT ![c] = "r_insert"]
            /\ pos' = pos
       \/ /\ \E idx \in RandomIdx : key_active(active_keys, KeyAt(idx[1], idx[2]))
          /\ pc' = [pc EXCEPT ![c] = "scan"]
          /\ pos' = [pos EXCEPT ![c] = 1]
          /\ key' = key
    /\ result' = [result EXCEPT ![c] = None]
    /\ emitted' = [emitted EXCEPT ![c] = <<>>]
    /\ log_task' = [log_task EXCEPT ![c] = "none"]
    /\ reply' = [reply EXCEPT ![c] = "none"]
    /\ UNCHANGED <<active_keys, now, held, reclaimVars, released, after_remove>>
    /\ Track
    /\ UNCHANGED <<vocabVars, rwVars, extVars>>

\* lines 91-93 and 104-106: stamp, insert, return the rendered key
InsertAndReturn(c) ==
    /\ active_keys' = MapInsert(active_keys, key[c], now)
    /\ result' = [result EXCEPT ![c] = Ok(Format(key[c]))]
    /\ held' = [held EXCEPT ![c] = key[c]]
    /\ pc' = [pc EXCEPT ![c] = "idle"]
    /\ key' = [key EXCEPT ![c] = NoKey]
    /\ pos' = [pos EXCEPT ![c] = 0]
    /\ after_remove' = FALSE
    /\ UNCHANGED <<now, emitted, log_task, reply, reclaimVars, released>>
    /\ Track
    /\ UNCHANGED <<vocabVars, rwVars, extVars>>

InsertRandom(c) ==
    /\ pc[c] = "r_insert"
    /\ InsertAndReturn(c)

\* ScanStep with the pass starting over after the last pair instead of ending
ScanStepStartsOver(c) ==
    /\ pc[c] = "scan"
    /\ pos[c] <= Capacity
    /\ IF key_active(active_keys, ScanKey(pos[c]))
       THEN /\ pos' = [pos EXCEPT ![c] = IF pos[c] = Capacity THEN 1 ELSE pos[c] + 1]
            /\ UNCHANGED <<pc, key>>
       ELSE /\ key' = [key EXCEPT ![c] = ScanKey(pos[c])]
            /\ pc' = [pc EXCEPT ![c] = "s_insert"]
            /\ pos' = pos
    /\ UNCHANGED <<active_keys, now, result, held, emitted, log_task, reply, reclaimVars,
                   released, after_remove>>
    /\ Track
    /\ UNCHANGED <<vocabVars, rwVars, extVars>>

\* one iteration of the nested loops, lines 96-102
ScanStep(c) ==
    /\ pc[c] = "scan"
    /\ pos[c] <= Capacity
    /\ IF key_active(active_keys, ScanKey(pos[c]))
       THEN /\ pos' = [pos EXCEPT ![c] = pos[c] + 1]
            /\ UNCHANGED <<pc, key>>
       ELSE /\ key' = [key EXCEPT ![c] = ScanKey(pos[c])]
            /\ pc' = [pc EXCEPT ![c] = "s_insert"]
            /\ pos' = pos
    /\ UNCHANGED <<active_keys, now, result, held, emitted, log_task, reply, reclaimVars,
                   released, after_remove>>
    /\ Track
    /\ UNCHANGED <<vocabVars, rwVars, extVars>>

InsertScan(c) ==
    /\ pc[c] = "s_insert"
    /\ InsertAndReturn(c)

\* the call waiting for the answer of the sink and passing its error on
ExhaustedAwaitsLog(c) ==
    /\ pc[c] = "scan"
    /\ pos[c] > Capacity
    /\ emitted' = [emitted EXCEPT ![c] = Append(emitted[c], ExhaustedEvent)]
    /\ reply' = reply
    /\ \E fate \in SinkFates :
         /\ log_task' = LogAsync(c, ExhaustedEvent, fate)
         /\ result' = [result EXCEPT ![c] =
                         CASE log_task'[c] = "written" -> FullCapasity
                           [] log_task'[c] = "never completes" -> None
                           [] OTHER -> [tag |-> "Err", value |-> <<"Internal">>]]
         /\ pc' = [pc EXCEPT ![c] =
                     IF log_task'[c] = "never completes" THEN "logging" ELSE "idle"]
    /\ pos' = [pos EXCEPT ![c] = 0]
    /\ after_remove' = FALSE
    /\ UNCHANGED <<active_keys, now, key, held, reclaimVars, released>>
    /\ Track
    /\ UNCHANGED <<vocabVars, rwVars, extVars>>

\* the error returned with no event sent
ExhaustedSilent(c) ==
    /\ pc[c] = "scan"
    /\ pos[c] > Capacity
    /\ result' = [result EXCEPT ![c] = FullCapasity]
    /\ pc' = [pc EXCEPT ![c] = "idle"]
    /\ pos' = [pos EXCEPT ![c] = 0]
    /\ after_remove' = FALSE
    /\ UNCHANGED <<active_keys, now, key, held, emitted, log_task, reply, reclaimVars, released>>
    /\ Track
    /\ UNCHANGED <<vocabVars, rwVars, extVars>>

\* lines 110-117: the loops ended without a free pair
Exhausted(c) ==
    /\ pc[c] = "scan"
    /\ pos[c] > Capacity
    /\ emitted' = [emitted EXCEPT ![c] = Append(emitted[c], ExhaustedEvent)]
    /\ reply' = reply
    /\ \E fate \in SinkFates : log_task' = LogAsync(c, ExhaustedEvent, fate)
    /\ result' = [result EXCEPT ![c] = FullCapasity]
    /\ pc' = [pc EXCEPT ![c] = "idle"]
    /\ pos' = [pos EXCEPT ![c] = 0]
    /\ after_remove' = FALSE
    /\ UNCHANGED <<active_keys, now, key, held, reclaimVars, released>>
    /\ Track
    /\ UNCHANGED <<vocabVars, rwVars, extVars>>

\* remove_key comparing the prefix alone
RemoveKeyByPrefix(m, k) == [x \in {y \in DOMAIN m : y[1] # k[1]} |-> m[x]]

\* remove_key
RemoveKey(m, k) == MapRemove(m, k)

\* free_game_key, lines 381-390: the key string is split on the space and its
\* first two tokens make the tuple; NoKey stands for the BAD_REQUEST answer
ParseKeyWord(key_word) ==
    IF Len(key_word) >= 2 THEN <<<<key_word[1]>>, <<key_word[2]>>>> ELSE NoKey

\* free_game_key, lines 381-393, on the map
FreeGameKey(m, key_word) ==
    IF ParseKeyWord(key_word) = NoKey THEN m ELSE RemoveKey(m, ParseKeyWord(key_word))

\* the session of caller c ends: the key string it was given is freed
Release(c) ==
    /\ pc[c] = "idle"
    /\ held[c] # NoKey
    /\ active_keys' = FreeGameKey(active_keys, Format(held[c]))
    /\ held' = [held EXCEPT ![c] = NoKey]
    /\ released' = TRUE
    /\ after_remove' = (after_remove \/ key_active(active_keys, held[c]))
    /\ UNCHANGED <<now, pc, key, pos, result, emitted, log_task, reply, reclaimVars>>
    /\ Track
    /\ UNCHANGED <<vocabVars, rwVars, extVars>>

\* the session of caller c dies without releasing its key
Crash(c) ==
    /\ pc[c] = "idle"
    /\ held[c] # NoKey
    /\ held' = [held EXCEPT ![c] = NoKey]
    /\ UNCHANGED <<active_keys, now, pc, key, pos, result, emitted, log_task, reply, reclaimVars,
                   released, after_remove>>
    /\ Track
    /\ UNCHANGED <<vocabVars, rwVars, extVars>>

CallerStep(c) ==
    \/ RandomDraws(c)
    \/ InsertRandom(c)
    \/ ScanStep(c)
    \/ InsertScan(c)
    \/ Exhausted(c)
    \/ Release(c)
    \/ Crash(c)

(***************************************************************************)
(* game/handlers.rs: free_game_key and persist_interactive_game, called    *)
(* over HTTP with any key string.  The strings tried are a single token, a *)
(* prefix word and a suffix word (either may be the empty token, as with   *)
(* two spaces in a row), and such a pair followed by more tokens, up to    *)
(* MaxTokens in all.                                                       *)
(***************************************************************************)
Range(f) == { f[x] : x \in DOMAIN f }
Tokens == { w[1] : w \in Range(prefix_words) \cup Range(suffix_words) } \cup {""}
Pairs == { <<w[1], v[1]>> : w \in Range(prefix_words) \cup {<<"">>},
                            v \in Range(suffix_words) \cup {<<"">>} }
Extra(n) == [x \in 1..n |-> "Extra"]
KeyWords ==
    [1..1 -> Tokens] \cup Pairs
      \cup { key_word \o Extra(n) : key_word \in Pairs, n \in 1..(MaxTokens - 2) }
Subjects == {"Integration", "Registered"}

\* the key strings the next call can carry: while the last call is on record
\* the caller can only repeat it
Requests == IF request = <<>> THEN KeyWords ELSE {request}

\* lines 372-390 and 321-339: the answer before the vault is touched
Rejection(subject_id, has_permission, key_word) ==
    IF subject_id # "Integration" THEN "AccessDenied"
    ELSE IF ~has_permission THEN "Permission"
    ELSE IF ParseKeyWord(key_word) = NoKey THEN "BAD_REQUEST"
    ELSE "none"

\* what both handlers do to the vault and to the history
HandleKeyWord(subject_id, has_permission, key_word) ==
    LET rejected == Rejection(subject_id, has_permission, key_word) # "none"
        tuple == ParseKeyWord(key_word)
    IN  /\ request' = key_word
        /\ call_parity' = 1 - call_parity
        /\ active_keys' = IF rejected THEN active_keys
                          ELSE FreeGameKey(active_keys, key_word)
        /\ was_active' = (~rejected /\ key_active(active_keys, tuple))
        /\ again' = /\ ~rejected
                    /\ request = key_word
                    /\ response \in {"OK", "CREATED", "Error"}
                    /\ was_active
        /\ released' = (released \/ was_active')
        /\ after_remove' = (after_remove \/ was_active')
        /\ UNCHANGED <<now, callerVars, reclaimVars>>
        /\ Track
        /\ UNCHANGED <<vocabVars, rwVars, startVars, oldVars>>

\* free_game_key
FreeGameKeyCall ==
    \E subject_id \in Subjects, has_permission \in BOOLEAN, key_word \in Requests :
        /\ HandleKeyWord(subject_id, has_permission, key_word)
        /\ response' =
             IF Rejection(subject_id, has_permission, key_word) # "none"
             THEN Rejection(subject_id, has_permission, key_word)
             ELSE "OK"

\* the key freed only once the session is stored
PersistFreesAfterStore ==
    \E subject_id \in Subjects, has_permission \in BOOLEAN, key_word \in Requests :
        \E stored \in BOOLEAN :
            LET rejected == Rejection(subject_id, has_permission, key_word) # "none"
                tuple == ParseKeyWord(key_word)
            IN  /\ request' = key_word
                /\ call_parity' = 1 - call_parity
                /\ active_keys' = IF rejected \/ ~stored THEN active_keys
                                  ELSE FreeGameKey(active_keys, key_word)
                /\ was_active' = (~rejected /\ key_active(active_keys, tuple))
                /\ again' = /\ ~rejected
                            /\ request = key_word
                            /\ response \in {"OK", "CREATED", "Error"}
                            /\ was_active
                /\ released' = (released \/ (was_active' /\ stored))
                /\ after_remove' = (after_remove \/ (was_active' /\ stored))
                /\ UNCHANGED <<now, callerVars, reclaimVars>>
                /\ Track
                /\ UNCHANGED <<vocabVars, rwVars, startVars, oldVars>>
                /\ response' =
                     IF rejected THEN Rejection(subject_id, has_permission, key_word)
                     ELSE IF stored THEN "CREATED" ELSE "Error"

\* persist_interactive_game: the key is freed at line 341, before the session
\* is stored; storing can fail
PersistInteractiveGameCall ==
    \E subject_id \in Subjects, has_permission \in BOOLEAN, key_word \in Requests :
        /\ HandleKeyWord(subject_id, has_permission, key_word)
        /\ \E stored \in BOOLEAN :
             response' =
               IF Rejection(subject_id, has_permission, key_word) # "none"
               THEN Rejection(subject_id, has_permission, key_word)
               ELSE IF stored THEN "CREATED" ELSE "Error"

\* a join that answers for every key of the vocabulary, allocated or not
JoinReplyAnyKey(subject_id, key_word, m) ==
    IF subject_id = "Integration" THEN "AccessDenied"
    ELSE IF ParseKeyWord(key_word) = NoKey THEN "BAD_REQUEST"
    ELSE IF ParseKeyWord(key_word) \notin AllKeys THEN "NOT_FOUND"
    ELSE "OK"

\* join_interactive_game, lines 103-136, against the map m
JoinReply(subject_id, key_word, m) ==
    IF subject_id = "Integration" THEN "AccessDenied"
    ELSE IF ParseKeyWord(key_word) = NoKey THEN "BAD_REQUEST"
    ELSE IF ~key_active(m, ParseKeyWord(key_word)) THEN "NOT_FOUND"
    ELSE "OK"

\* the key strings a player tries: the rendered keys of the vocabulary and a
\* string of one token; while the last call is on record, that one again
JoinKeyWords == { Format(k) : k \in AllKeys } \cup { Extra(1) }
JoinRequests == IF request = <<>> THEN JoinKeyWords ELSE {request}

\* join_interactive_game: reads the vault, changes nothing
JoinInteractiveGameCall ==
    \E subject_id \in Subjects, key_word \in JoinRequests :
        /\ request' = key_word
        /\ response' = JoinReply(subject_id, key_word, active_keys)
        /\ was_active' = key_active(active_keys, ParseKeyWord(key_word))
        /\ again' = FALSE
        /\ UNCHANGED <<active_keys, now, callerVars, reclaimVars, released, after_remove,
                       call_parity>>
        /\ Track
        /\ UNCHANGED <<vocabVars, rwVars, startVars, oldVars>>

\* the record of the last handler call is dropped (no step of the program)
Forget ==
    /\ request # <<>>
    /\ request' = <<>>
    /\ response' = "none"
    /\ was_active' = FALSE
    /\ again' = FALSE
    /\ UNCHANGED <<call_parity, startVars, vocabVars, dashVars, rwVars, oldVars>>

(***************************************************************************)
(* game/handlers.rs: create_interactive_game and initiate_interactive_game *)
(* after their create_key call.  Neither handler calls remove_key.         *)
(***************************************************************************)
Handlers == {"create_interactive_game", "initiate_interactive_game"}
GameTypes == {"Spin", "Quiz"}

\* lines 156-189 and 227-262: the answer of the handler, given what
\* create_key returned and how the payload and the session service fare
InteractiveGameReply(handler, game_type, created, payload_ok, gs_ok) ==
    IF created = FullCapasity THEN "FullCapasity"
    ELSE IF handler = "initiate_interactive_game" /\ game_type # "Spin" THEN "BAD_REQUEST"
    ELSE IF ~payload_ok THEN "PayloadError"
    ELSE IF ~gs_ok THEN "SessionServiceError"
    ELSE IF handler = "create_interactive_game" THEN "CREATED"
    ELSE "OK"

\* the handler of caller c goes on from create_key to its answer; a session
\* holds the key only when the session service took it
HandlerReply(c) ==
    /\ pc[c] = "idle"
    /\ result[c] # None
    /\ reply[c] = "none"
    /\ \E handler \in Handlers, game_type \in GameTypes, payload_ok \in BOOLEAN,
          gs_ok \in BOOLEAN :
         reply' = [reply EXCEPT ![c] =
                     InteractiveGameReply(handler, game_type, result[c], payload_ok, gs_ok)]
    /\ held' = IF reply'[c] \in {"CREATED", "OK"} THEN held
               ELSE [held EXCEPT ![c] = NoKey]
    /\ UNCHANGED <<active_keys, now, pc, key, pos, result, emitted, log_task, reclaimVars,
                   released, after_remove>>
    /\ Track
    /\ UNCHANGED <<vocabVars, rwVars, extVars>>

\* the session behind the answer of caller c is there
HasSession(c) == reply[c] \in {"CREATED", "OK"}

(***************************************************************************)
(* The Reclaimer, spawn_vault_cleanup.  The first tick of the interval     *)
(* completes at once, the following ones one Period apart.                 *)
(***************************************************************************)
Tick ==
    /\ rpc = "wait"
    /\ now >= next_tick
    /\ next_tick' = next_tick + Period
    /\ time' = now
    /\ rpc' = "len_before"
    /\ aged' = 0
    /\ emitted' = [emitted EXCEPT ![0] = <<>>]
    /\ log_task' = [log_task EXCEPT ![0] = "none"]
    /\ reply' = reply
    /\ UNCHANGED <<active_keys, now, pc, key, pos, result, held, keys_before,
                   released, after_remove>>
    /\ Track
    /\ UNCHANGED <<vocabVars, rwVars, extVars>>

LenBefore ==
    /\ rpc = "len_before"
    /\ keys_before' = MapLen(active_keys)
    /\ rpc' = "retain"
    /\ UNCHANGED <<active_keys, now, callerVars, time, next_tick, aged,
                   released, after_remove>>
    /\ Track
    /\ UNCHANGED <<vocabVars, rwVars, extVars>>

Retain ==
    /\ rpc = "retain"
    /\ LET timeout_threshold == time - TTL
       IN  active_keys' = MapRetain(active_keys, timeout_threshold)
    /\ aged' = MapLen(active_keys) - MapLen(active_keys')
    /\ released' = (released \/ aged' > 0)
    /\ rpc' = "len_after"
    /\ UNCHANGED <<now, callerVars, time, keys_before, next_tick, after_remove>>
    /\ Track
    /\ UNCHANGED <<vocabVars, rwVars, extVars>>

\* lines 145-158.  keys_before - keys_after underflows when the map grew:
\* a build with overflow checks panics there, a build without wraps.
LenAfter ==
    /\ rpc = "len_after"
    /\ LET keys_after == MapLen(active_keys)
           removed_keys == UsizeSub(keys_before, keys_after)
       IN  \/ /\ removed_keys.overflow
              /\ rpc' = "panicked"
              /\ UNCHANGED <<emitted, log_task>>
           \/ /\ rpc' = "wait"
              /\ IF removed_keys.overflow \/ removed_keys.value > 0
                 THEN /\ emitted' = [emitted EXCEPT ![0] =
                                        Append(emitted[0], CleanupEvent(removed_keys))]
                      /\ \E fate \in SinkFates :
                            log_task' = LogAsync(0, CleanupEvent(removed_keys), fate)
                 ELSE UNCHANGED <<emitted, log_task>>
    /\ keys_before' = 0
    /\ time' = 0
    /\ reply' = reply
    /\ UNCHANGED <<active_keys, now, pc, key, pos, result, held, next_tick, aged,
                   released, after_remove>>
    /\ Track
    /\ UNCHANGED <<vocabVars, rwVars, extVars>>

\* the system clock
Advance ==
    /\ now + Period <= MaxNow
    /\ now' = now + Period
    /\ UNCHANGED <<active_keys, callerVars, reclaimVars, released, after_remove>>
    /\ Track
    /\ UNCHANGED <<vocabVars, rwVars, extVars>>

(***************************************************************************)
(* common/key_vault.rs.  tokio's RwLock hands the lock out in the order of *)
(* the requests: a request is granted at once when nobody waits and the    *)
(* lock is compatible, and queues otherwise.  A write needs the lock free  *)
(* of every guard, the requester's own read guards included.               *)
(***************************************************************************)
Wanted(c) ==
    IF rw_pc[c] \in {"acq_read", "acq_read2"} THEN "read"
    ELSE IF rw_pc[c] \in {"acq_write_r", "acq_write_s", "acq_write_rm"} THEN "write"
    ELSE "none"

Compatible(mode) ==
    IF mode = "read" THEN rw_writer = 0
    ELSE rw_writer = 0 /\ \A d \in Callers : rw_readers[d] = 0

InQueue(c) == \E n \in 1..Len(rw_waiters) : rw_waiters[n] = c

Granted(c) ==
    /\ Wanted(c) # "none"
    /\ Compatible(Wanted(c))
    /\ IF InQueue(c) THEN Head(rw_waiters) = c ELSE rw_waiters = <<>>

Dequeued(c) == IF InQueue(c) THEN Tail(rw_waiters) ELSE rw_waiters

\* a request that cannot be granted joins the queue
RwEnqueue(c) ==
    /\ Wanted(c) # "none"
    /\ ~InQueue(c)
    /\ ~Granted(c)
    /\ rw_waiters' = Append(rw_waiters, c)
    /\ UNCHANGED <<rw_active_keys, rw_readers, rw_writer, rw_pc, rw_key,
                   rw_result, rw_emitted, rw_oks, rw_released>>
    /\ UNCHANGED <<vocabVars, dashVars, extVars>>

\* random_idx of the RwLock vault: the set of pairs it can return (empty
\* when it returns Err)
RwRandomIdx ==
    CASE word_count = 0 -> {}
      [] word_count = 1 -> {<<0, 0>>}
      [] OTHER -> (0 .. word_count - 1) \X (0 .. word_count - 1)

\* create_key is called
RwCreateKey(c) ==
    /\ rw_pc[c] = "idle"
    /\ rw_pc' = [rw_pc EXCEPT ![c] = "acq_read"]
    /\ rw_result' = [rw_result EXCEPT ![c] = None]
    /\ rw_emitted' = [rw_emitted EXCEPT ![c] = <<>>]
    /\ UNCHANGED <<rw_active_keys, rw_readers, rw_writer, rw_waiters, rw_key,
                   rw_oks, rw_released>>
    /\ UNCHANGED <<vocabVars, dashVars, extVars>>

\* line 70, and line 92: a read guard is granted
RwRead(c) ==
    /\ rw_pc[c] \in {"acq_read", "acq_read2"}
    /\ Granted(c)
    /\ rw_waiters' = Dequeued(c)
    /\ rw_readers' = [rw_readers EXCEPT ![c] = rw_readers[c] + 1]
    /\ rw_pc' = [rw_pc EXCEPT ![c] = IF rw_pc[c] = "acq_read" THEN "random" ELSE "scan"]
    /\ UNCHANGED <<rw_active_keys, rw_writer, rw_key, rw_result, rw_emitted,
                   rw_oks, rw_released>>
    /\ UNCHANGED <<vocabVars, dashVars, extVars>>

\* lines 72-90, under the read guard of line 70: the run of draws ends at the
\* first draw whose key is free, where the guard is dropped (line 84), or
\* after Attempts collisions (or at once when random_idx fails)
RwRandomDraws(c) ==
    /\ rw_pc[c] = "random"
    /\ \/ /\ Attempts > 0
          /\ \E idx \in RwRandomIdx :
               /\ KeyAt(idx[1], idx[2]) \notin rw_active_keys
               /\ rw_key' = [rw_key EXCEPT ![c] = KeyAt(idx[1], idx[2])]
          /\ rw_readers' = [rw_readers EXCEPT ![c] = rw_readers[c] - 1]
          /\ rw_pc' = [rw_pc EXCEPT ![c] = "acq_write_r"]
       \/ /\ \/ RwRandomIdx = {}
             \/ \E idx \in RwRandomIdx : KeyAt(idx[1], idx[2]) \in rw_active_keys
          /\ rw_pc' = [rw_pc EXCEPT ![c] = "acq_read2"]
          /\ UNCHANGED <<rw_key, rw_readers>>
    /\ UNCHANGED <<rw_active_keys, rw_writer, rw_waiters, rw_result, rw_emitted,
                   rw_oks, rw_released>>
    /\ UNCHANGED <<vocabVars, dashVars, extVars>>

\* lines 93-117, under the read guards: the first free pair in row-major
\* order, or the exhaustion error; the guards are dropped on return
RwScan(c) ==
    /\ rw_pc[c] = "scan"
    /\ LET free == {n \in 1..Capacity : ScanKey(n) \notin rw_active_keys}
       IN  IF free # {}
           THEN /\ rw_key' = [rw_key EXCEPT ![c] =
                        ScanKey(CHOOSE n \in free : \A m \in free : n <= m)]
                /\ rw_pc' = [rw_pc EXCEPT ![c] = "acq_write_s"]
                /\ UNCHANGED <<rw_readers, rw_result, rw_emitted>>
           ELSE /\ rw_emitted' = [rw_emitted EXCEPT ![c] = Append(rw_emitted[c], ExhaustedEvent)]
                /\ rw_result' = [rw_result EXCEPT ![c] = FullCapasity]
                /\ rw_readers' = [rw_readers EXCEPT ![c] = 0]
                /\ rw_pc' = [rw_pc EXCEPT ![c] = "idle"]
                /\ rw_key' = rw_key
    /\ UNCHANGED <<rw_active_keys, rw_writer, rw_waiters, rw_oks, rw_released>>
    /\ UNCHANGED <<vocabVars, dashVars, extVars>>

\* lines 85, 103 and 57: the write guard is granted
RwWrite(c) ==
    /\ rw_pc[c] \in {"acq_write_r", "acq_write_s", "acq_write_rm"}
    /\ Granted(c)
    /\ rw_waiters' = Dequeued(c)
    /\ rw_writer' = c
    /\ rw_pc' = [rw_pc EXCEPT ![c] =
                   IF rw_pc[c] = "acq_write_rm" THEN "write_rm" ELSE "write"]
    /\ UNCHANGED <<rw_active_keys, rw_readers, rw_key, rw_result, rw_emitted,
                   rw_oks, rw_released>>
    /\ UNCHANGED <<vocabVars, dashVars, extVars>>

\* lines 86-87 and 104-105: insert and return; every guard is dropped
RwInsert(c) ==
    /\ rw_pc[c] = "write"
    /\ rw_active_keys' = rw_active_keys \cup {rw_key[c]}
    /\ rw_result' = [rw_result EXCEPT ![c] = Ok(Format(rw_key[c]))]
    /\ rw_oks' = IF rw_released THEN rw_oks ELSE rw_oks + 1
    /\ rw_writer' = 0
    /\ rw_readers' = [rw_readers EXCEPT ![c] = 0]
    /\ rw_pc' = [rw_pc EXCEPT ![c] = "idle"]
    /\ rw_key' = [rw_key EXCEPT ![c] = NoKey]
    /\ UNCHANGED <<rw_waiters, rw_emitted, rw_released>>
    /\ UNCHANGED <<vocabVars, dashVars, extVars>>

\* remove_key(k) is called, line 56
RwRemoveKey(c) ==
    /\ rw_pc[c] = "idle"
    /\ \E k \in AllKeys : rw_key' = [rw_key EXCEPT ![c] = k]
    /\ rw_pc' = [rw_pc EXCEPT ![c] = "acq_write_rm"]
    /\ UNCHANGED <<rw_active_keys, rw_readers, rw_writer, rw_waiters,
                   rw_result, rw_emitted, rw_oks, rw_released>>
    /\ UNCHANGED <<vocabVars, dashVars, extVars>>

\* line 58
RwRemove(c) ==
    /\ rw_pc[c] = "write_rm"
    /\ rw_active_keys' = rw_active_keys \ {rw_key[c]}
    /\ rw_released' = TRUE
    /\ rw_writer' = 0
    /\ rw_pc' = [rw_pc EXCEPT ![c] = "idle"]
    /\ rw_key' = [rw_key EXCEPT ![c] = NoKey]
    /\ UNCHANGED <<rw_readers, rw_waiters, rw_result, rw_emitted, rw_oks>>
    /\ UNCHANGED <<vocabVars, dashVars, extVars>>

RwCallerStep(c) ==
    \/ RwCreateKey(c)
    \/ RwEnqueue(c)
    \/ RwRead(c)
    \/ RwRandomDraws(c)
    \/ RwScan(c)
    \/ RwWrite(c)
    \/ RwInsert(c)
    \/ RwRemoveKey(c)
    \/ RwRemove(c)

(***************************************************************************)
(* Startup: load_words is called once; request handlers get the vault only *)
(* if it returned Ok.                                                      *)
(***************************************************************************)
LoadWordsCall ==
    /\ load = "none"
    /\ \E answer \in StoreAnswers :
         /\ db_rows' = answer
         /\ IF answer.tag = "Err"
            THEN /\ load' = "Database"
                 /\ UNCHANGED vocabVars
            ELSE LET vault == LoadWords(answer.prefix, answer.suffix)
                 IN  IF vault.tag = "Ok"
                     THEN /\ load' = "Ok"
                          /\ word_count' = vault.word_count
                          /\ prefix_words' = vault.prefix_words
                          /\ suffix_words' = vault.suffix_words
                     ELSE /\ load' = vault.value[1]
                          /\ UNCHANGED vocabVars
    /\ UNCHANGED <<dashVars, rwVars, handlerVars, oldVars>>

\* random_idx, line 70, with word_count = 0: random_range(0..0) panics on the
\* empty range and the call never returns
DrawPanics(c) ==
    /\ load = "Ok"
    /\ pc[c] = "idle"
    /\ held[c] = NoKey
    /\ Attempts > 0
    /\ word_count = 0
    /\ pc' = [pc EXCEPT ![c] = "panicked"]
    /\ result' = [result EXCEPT ![c] = None]
    /\ emitted' = [emitted EXCEPT ![c] = <<>>]
    /\ log_task' = [log_task EXCEPT ![c] = "none"]
    /\ reply' = [reply EXCEPT ![c] = "none"]
    /\ UNCHANGED <<active_keys, now, key, pos, held, reclaimVars, released, after_remove>>
    /\ Track
    /\ UNCHANGED <<vocabVars, rwVars, extVars>>

(***************************************************************************)
(* key_vault/key_vault.rs: the vault that takes a word out of its pool     *)
(* when it allocates and pushes it back when it frees.  Every block that   *)
(* holds one lock is one step.  The one vault of the program is            *)
(* KeyVault::new(0.2, 100).                                                *)
(***************************************************************************)
CwWordCount == 100
CwRefillTenths == 2
CwPercent == 100

\* key_vault/db.rs: both queries read the table prefix_word
CwWordSets == << <<"Red", "Blue">>, <<"Red", "Blue">> >>

\* the words a release can name
CwWords == {"Red", "Blue"}

\* random_idx: one of 0 .. word_count - 2, whatever the pool holds
CwRandomIdx == 0 .. (CwWordCount - 1) - 1

\* Vec::remove(idx), idx counted from 0
CwRemoveAt(words, idx) == SubSeq(words, 1, idx) \o SubSeq(words, idx + 2, Len(words))

\* retain(|word| !used.contains(word))
CwRetain(words, used) == SelectSeq(words, LAMBDA w : w \notin used)

\* refill, lines 89-101: (len / 100) as f32 > refill_threshold for both pools
CwAboveThreshold ==
    /\ 10 * (Len(cw_prefix_words) \div CwPercent) > CwRefillTenths
    /\ 10 * (Len(cw_suffix_words) \div CwPercent) > CwRefillTenths

CwFrame == UNCHANGED <<vocabVars, dashVars, rwVars, startVars, handlerVars, idVars>>

\* the indices a draw can give: every index at or beyond the length of the
\* pool makes Vec::remove panic alike, the first of them stands for all
CwDraws(words) == { idx \in CwRandomIdx : idx <= Len(words) }

CwPanic == [tag |-> "Panic", value |-> <<>>]

\* create_key, line 65: refill reads the sizes and spawns the refill task.
\* A call starts when the refill task of the call before has ended.
CwCreateKey(c) ==
    /\ cw_pc[c] = "idle"
    /\ cw_task = "none"
    /\ cw_pc' = [cw_pc EXCEPT ![c] = "take_prefix"]
    /\ cw_task' = IF CwAboveThreshold THEN "none" ELSE "used_words"
    /\ cw_result' = [cw_result EXCEPT ![c] = None]
    /\ cw_prefix' = [cw_prefix EXCEPT ![c] = ""]
    /\ cw_suffix' = [cw_suffix EXCEPT ![c] = ""]
    /\ cw_was_active' = [cw_was_active EXCEPT ![c] = FALSE]
    /\ UNCHANGED <<cw_prefix_words, cw_suffix_words, cw_active_keys, cw_used>>
    /\ CwFrame

\* lines 67-71: Vec::remove panics when idx is not below the length
CwTakePrefix(c) ==
    /\ cw_pc[c] = "take_prefix"
    /\ IF CwRandomIdx = {}
       THEN /\ cw_pc' = [cw_pc EXCEPT ![c] = "idle"]
            /\ cw_result' = [cw_result EXCEPT ![c] = [tag |-> "Err", value |-> <<"Internal">>]]
            /\ UNCHANGED <<cw_prefix_words, cw_prefix>>
       ELSE \E idx \in CwDraws(cw_prefix_words) :
              IF idx < Len(cw_prefix_words)
              THEN /\ cw_prefix' = [cw_prefix EXCEPT ![c] = cw_prefix_words[idx + 1]]
                   /\ cw_prefix_words' = CwRemoveAt(cw_prefix_words, idx)
                   /\ cw_pc' = [cw_pc EXCEPT ![c] = "take_suffix"]
                   /\ cw_result' = cw_result
              ELSE /\ cw_pc' = [cw_pc EXCEPT ![c] = "idle"]
                   /\ cw_result' = [cw_result EXCEPT ![c] = CwPanic]
                   /\ UNCHANGED <<cw_prefix_words, cw_prefix>>
    /\ UNCHANGED <<cw_suffix_words, cw_active_keys, cw_suffix, cw_was_active, cw_task, cw_used>>
    /\ CwFrame

\* lines 73-77
CwTakeSuffix(c) ==
    /\ cw_pc[c] = "take_suffix"
    /\ IF CwRandomIdx = {}
       THEN /\ cw_pc' = [cw_pc EXCEPT ![c] = "idle"]
            /\ cw_result' = [cw_result EXCEPT ![c] = [tag |-> "Err", value |-> <<"Internal">>]]
            /\ UNCHANGED <<cw_suffix_words, cw_suffix, cw_prefix>>
       ELSE \E idx \in CwDraws(cw_suffix_words) :
              IF idx < Len(cw_suffix_words)
              THEN /\ cw_suffix' = [cw_suffix EXCEPT ![c] = cw_suffix_words[idx + 1]]
                   /\ cw_suffix_words' = CwRemoveAt(cw_suffix_words, idx)
                   /\ cw_pc' = [cw_pc EXCEPT ![c] = "insert"]
                   /\ UNCHANGED <<cw_result, cw_prefix>>
              ELSE /\ cw_pc' = [cw_pc EXCEPT ![c] = "idle"]
                   /\ cw_result' = [cw_result EXCEPT ![c] = CwPanic]
                   /\ cw_prefix' = [cw_prefix EXCEPT ![c] = ""]
                   /\ UNCHANGED <<cw_suffix_words, cw_suffix>>
    /\ UNCHANGED <<cw_prefix_words, cw_active_keys, cw_was_active, cw_task, cw_used>>
    /\ CwFrame

\* lines 79-85
CwInsert(c) ==
    /\ cw_pc[c] = "insert"
    /\ cw_active_keys' = cw_active_keys \cup {<<cw_prefix[c], cw_suffix[c]>>}
    /\ cw_result' = [cw_result EXCEPT ![c] = Ok(<<cw_prefix[c], cw_suffix[c]>>)]
    /\ cw_pc' = [cw_pc EXCEPT ![c] = "idle"]
    /\ cw_prefix' = [cw_prefix EXCEPT ![c] = ""]
    /\ cw_suffix' = [cw_suffix EXCEPT ![c] = ""]
    /\ UNCHANGED <<cw_prefix_words, cw_suffix_words, cw_was_active, cw_task, cw_used>>
    /\ CwFrame

\* remove_key, lines 49-53, called with any two words while the pools are
\* within CwMaxPool
CwRemoveKey(c) ==
    /\ cw_pc[c] = "idle"
    /\ Len(cw_prefix_words) < CwMaxPool
    /\ Len(cw_suffix_words) < CwMaxPool
    /\ \E prefix \in CwWords, suffix \in CwWords :
         /\ cw_prefix' = [cw_prefix EXCEPT ![c] = prefix]
         /\ cw_suffix' = [cw_suffix EXCEPT ![c] = suffix]
         /\ cw_was_active' = [cw_was_active EXCEPT ![c] =
                                <<prefix, suffix>> \in cw_active_keys]
         /\ cw_active_keys' = cw_active_keys \ {<<prefix, suffix>>}
    /\ cw_pc' = [cw_pc EXCEPT ![c] = "push_prefix"]
    /\ cw_result' = [cw_result EXCEPT ![c] = None]
    /\ UNCHANGED <<cw_prefix_words, cw_suffix_words, cw_task, cw_used>>
    /\ CwFrame

\* lines 54-57
CwPushPrefix(c) ==
    /\ cw_pc[c] = "push_prefix"
    /\ cw_prefix_words' = Append(cw_prefix_words, cw_prefix[c])
    /\ cw_pc' = [cw_pc EXCEPT ![c] = "push_suffix"]
    /\ UNCHANGED <<cw_suffix_words, cw_active_keys, cw_prefix, cw_suffix, cw_was_active,
                   cw_result, cw_task, cw_used>>
    /\ CwFrame

\* lines 58-61
CwPushSuffix(c) ==
    /\ cw_pc[c] = "push_suffix"
    /\ cw_suffix_words' = Append(cw_suffix_words, cw_suffix[c])
    /\ cw_pc' = [cw_pc EXCEPT ![c] = "idle"]
    /\ cw_prefix' = [cw_prefix EXCEPT ![c] = ""]
    /\ cw_suffix' = [cw_suffix EXCEPT ![c] = ""]
    /\ cw_was_active' = [cw_was_active EXCEPT ![c] = FALSE]
    /\ UNCHANGED <<cw_prefix_words, cw_active_keys, cw_result, cw_task, cw_used>>
    /\ CwFrame

\* spawn_refill_task, line 112, and used_words
CwUsedWords ==
    /\ cw_task = "used_words"
    /\ cw_used' = <<{ k[1] : k \in cw_active_keys }, { k[2] : k \in cw_active_keys }>>
    /\ cw_task' = "write_prefix"
    /\ UNCHANGED <<cw_prefix_words, cw_suffix_words, cw_active_keys, cw_pc, cw_prefix,
                   cw_suffix, cw_was_active, cw_result>>
    /\ CwFrame

\* lines 114-120; when get_word_sets fails the task ends
CwWritePrefix ==
    /\ cw_task = "write_prefix"
    /\ \E db_ok \in BOOLEAN :
         IF db_ok
         THEN /\ cw_prefix_words' = CwRetain(CwWordSets[1], cw_used[1])
              /\ cw_task' = "write_suffix"
              /\ cw_used' = cw_used
         ELSE /\ cw_task' = "none"
              /\ cw_used' = <<{}, {}>>
              /\ cw_prefix_words' = cw_prefix_words
    /\ UNCHANGED <<cw_suffix_words, cw_active_keys, cw_pc, cw_prefix, cw_suffix,
                   cw_was_active, cw_result>>
    /\ CwFrame

\* lines 122-126
CwWriteSuffix ==
    /\ cw_task = "write_suffix"
    /\ cw_suffix_words' = CwRetain(CwWordSets[2], cw_used[2])
    /\ cw_task' = "none"
    /\ cw_used' = <<{}, {}>>
    /\ UNCHANGED <<cw_prefix_words, cw_active_keys, cw_pc, cw_prefix, cw_suffix,
                   cw_was_active, cw_result>>
    /\ CwFrame

\* the vault after new and load_words
InitConsumable ==
    /\ cw_prefix_words = CwWordSets[1]
    /\ cw_suffix_words = CwWordSets[2]
    /\ cw_active_keys = {}
    /\ cw_pc = [c \in Callers |-> "idle"]
    /\ cw_prefix = [c \in Callers |-> ""]
    /\ cw_suffix = [c \in Callers |-> ""]
    /\ cw_was_active = [c \in Callers |-> FALSE]
    /\ cw_result = [c \in Callers |-> None]
    /\ cw_task = "none"
    /\ cw_used = <<{}, {}>>

(***************************************************************************)
(* key_generation/key_vault.rs: the vault of combined ids behind a         *)
(* std::sync::RwLock.  A write waits until no read guard is held.  Of the  *)
(* IdsPerSlot numbers a draw can give, the first MaxDrawn are tried.       *)
(***************************************************************************)
IdsPerSlot == 1000

IdNumbers == { n \in 0 .. (MaxDrawn - 1) : n < IdsPerSlot }

\* get_random_id: format!("S{slot}_{n}")
GetRandomId(slot) == { <<"S", slot, "_", n>> : n \in IdNumbers }

\* format!("{s1} {s2}")
CombinedId(s1, s2) == <<s1, s2>>

NoSlots == <<>>
IdFrame == UNCHANGED <<vocabVars, dashVars, rwVars, startVars, handlerVars, cwVars>>
IdNoReader == \A c \in Callers : ~id_readers[c]

\* create_key, lines 43-46: the read guard
IdCreateKey(c) ==
    /\ id_pc[c] = "idle"
    /\ id_pc' = [id_pc EXCEPT ![c] = "loop"]
    /\ id_readers' = [id_readers EXCEPT ![c] = TRUE]
    /\ id_result' = [id_result EXCEPT ![c] = None]
    /\ id_slots' = [id_slots EXCEPT ![c] = NoSlots]
    /\ UNCHANGED id_in_use
    /\ IdFrame

\* lines 50-61, one round of the loop: the loop is left, and the guard
\* dropped, when the combined id IS in in_use; otherwise the next round
IdLoop(c) ==
    /\ id_pc[c] = "loop"
    /\ \E s1 \in GetRandomId(1), s2 \in GetRandomId(2) :
         IF CombinedId(s1, s2) \in id_in_use
         THEN /\ id_readers' = [id_readers EXCEPT ![c] = FALSE]
              /\ id_slots' = [id_slots EXCEPT ![c] = <<s1, s2>>]
              /\ id_pc' = [id_pc EXCEPT ![c] = "write"]
         ELSE UNCHANGED <<id_readers, id_slots, id_pc>>
    /\ UNCHANGED <<id_in_use, id_result>>
    /\ IdFrame

\* lines 63-72: the write guard, the insert, and the words fetched from the
\* database, which can fail
IdInsert(c) ==
    /\ id_pc[c] = "write"
    /\ IdNoReader
    /\ id_in_use' = id_in_use \cup {CombinedId(id_slots[c][1], id_slots[c][2])}
    /\ \E db_ok \in BOOLEAN :
         id_result' = [id_result EXCEPT ![c] =
                         IF db_ok THEN Ok(id_slots[c])
                         ELSE [tag |-> "Err", value |-> <<"Internal">>]]
    /\ id_pc' = [id_pc EXCEPT ![c] = "idle"]
    /\ UNCHANGED <<id_readers, id_slots>>
    /\ IdFrame

\* remove_key, lines 31-39, with any combined id
IdRemoveKey ==
    /\ IdNoReader
    /\ \E s1 \in GetRandomId(1), s2 \in GetRandomId(2) :
         /\ CombinedId(s1, s2) \in id_in_use
         /\ id_in_use' = id_in_use \ {CombinedId(s1, s2)}
    /\ UNCHANGED <<id_readers, id_pc, id_slots, id_result>>
    /\ IdFrame

\* line 20: in_use is a public field; code that holds the vault inserts an id
IdInsertThroughField ==
    /\ IdNoReader
    /\ \E s1 \in GetRandomId(1), s2 \in GetRandomId(2) :
         /\ CombinedId(s1, s2) \notin id_in_use
         /\ id_in_use' = id_in_use \cup {CombinedId(s1, s2)}
    /\ UNCHANGED <<id_readers, id_pc, id_slots, id_result>>
    /\ IdFrame

\* the vault after new
InitIds ==
    /\ id_in_use = {}
    /\ id_readers = [c \in Callers |-> FALSE]
    /\ id_pc = [c \in Callers |-> "idle"]
    /\ id_slots = [c \in Callers |-> NoSlots]
    /\ id_result = [c \in Callers |-> None]

(***************************************************************************)
(* Construction.                                                           *)
(***************************************************************************)
\* everything but the vocabulary: nothing allocated, nobody in a call
InitRegistry ==
    /\ active_keys = EmptyMap
    /\ now = StartTime
    /\ pc = [c \in Callers |-> "idle"]
    /\ key = [c \in Callers |-> NoKey]
    /\ pos = [c \in Callers |-> 0]
    /\ result = [c \in Callers |-> None]
    /\ held = [c \in Callers |-> NoKey]
    /\ emitted = [c \in Callers \cup {0} |-> <<>>]
    /\ log_task = [c \in Callers \cup {0} |-> "none"]
    /\ reply = [c \in Callers |-> "none"]
    /\ rpc = "wait"
    /\ time = 0
    /\ keys_before = 0
    /\ next_tick = StartTime
    /\ aged = 0
    /\ released = FALSE
    /\ saw_full = [c \in Callers |-> FALSE]
    /\ after_remove = FALSE
    /\ rw_active_keys = {}
    /\ rw_readers = [c \in Callers |-> 0]
    /\ rw_writer = 0
    /\ rw_waiters = <<>>
    /\ rw_pc = [c \in Callers |-> "idle"]
    /\ rw_key = [c \in Callers |-> NoKey]
    /\ rw_result = [c \in Callers |-> None]
    /\ rw_emitted = [c \in Callers |-> <<>>]
    /\ rw_oks = 0
    /\ rw_released = FALSE
    /\ request = <<>>
    /\ response = "none"
    /\ was_active = FALSE
    /\ again = FALSE
    /\ call_parity = 0
    /\ InitConsumable
    /\ InitIds

\* the state after load_words has built the vault from one of WordSets
Init ==
    /\ \E ws \in WordSets :
         LET vault == LoadWords(ws[1], ws[2])
         IN  /\ vault.tag = "Ok"
             /\ db_rows = Rows(ws[1], ws[2])
             /\ word_count = vault.word_count
             /\ prefix_words = vault.prefix_words
             /\ suffix_words = vault.suffix_words
    /\ load = "Ok"
    /\ InitRegistry

\* the state at startup, before load_words is called
InitStartup ==
    /\ db_rows = NotAsked
    /\ load = "none"
    /\ word_count = 0
    /\ prefix_words = <<>>
    /\ suffix_words = <<>>
    /\ InitRegistry

\* the DashMap vault under concurrent callers
Next ==
    \/ \E c \in Callers : RandomDraws(c)
    \/ \E c \in Callers : InsertRandom(c)
    \/ \E c \in Callers : ScanStep(c)
    \/ \E c \in Callers : InsertScan(c)
    \/ \E c \in Callers : Exhausted(c)
    \/ \E c \in Callers : Release(c)
    \/ \E c \in Callers : Crash(c)

Spec == Init /\ [][Next]_vars

\* the DashMap vault under one caller, its Reclaimer and the clock
NextReclaim ==
    \/ RandomDraws(1)
    \/ InsertRandom(1)
    \/ ScanStep(1)
    \/ InsertScan(1)
    \/ Exhausted(1)
    \/ Release(1)
    \/ Crash(1)
    \/ Tick
    \/ LenBefore
    \/ Retain
    \/ LenAfter
    \/ Advance

SpecReclaim == Init /\ [][NextReclaim]_vars

\* the DashMap vault with no two operations overlapping
Alone(c) == \A d \in Callers \ {c} : pc[d] = "idle"

NextSeq ==
    \/ \E c \in Callers : Alone(c) /\ RandomDraws(c)
    \/ \E c \in Callers : Alone(c) /\ InsertRandom(c)
    \/ \E c \in Callers : Alone(c) /\ ScanStep(c)
    \/ \E c \in Callers : Alone(c) /\ InsertScan(c)
    \/ \E c \in Callers : Alone(c) /\ Exhausted(c)
    \/ \E c \in Callers : Alone(c) /\ Release(c)
    \/ \E c \in Callers : Alone(c) /\ Crash(c)

SpecSeq == Init /\ [][NextSeq]_vars

\* the RwLock vault with no two calls overlapping, as in max_limit_keys
RwAlone(c) == \A d \in Callers \ {c} : rw_pc[d] = "idle"

NextRwSeq ==
    \/ \E c \in Callers : RwAlone(c) /\ RwCreateKey(c)
    \/ \E c \in Callers : RwAlone(c) /\ RwEnqueue(c)
    \/ \E c \in Callers : RwAlone(c) /\ RwRead(c)
    \/ \E c \in Callers : RwAlone(c) /\ RwRandomDraws(c)
    \/ \E c \in Callers : RwAlone(c) /\ RwScan(c)
    \/ \E c \in Callers : RwAlone(c) /\ RwWrite(c)
    \/ \E c \in Callers : RwAlone(c) /\ RwInsert(c)
    \/ \E c \in Callers : RwAlone(c) /\ RwRemoveKey(c)
    \/ \E c \in Callers : RwAlone(c) /\ RwRemove(c)

SpecRwSeq == Init /\ [][NextRwSeq]_vars

\* the RwLock vault under concurrent callers, as in test_concurrent_key_creation
NextRw ==
    \/ \E c \in Callers : RwCreateKey(c)
    \/ \E c \in Callers : RwEnqueue(c)
    \/ \E c \in Callers : RwRead(c)
    \/ \E c \in Callers : RwRandomDraws(c)
    \/ \E c \in Callers : RwScan(c)
    \/ \E c \in Callers : RwWrite(c)
    \/ \E c \in Callers : RwInsert(c)
    \/ \E c \in Callers : RwRemoveKey(c)
    \/ \E c \in Callers : RwRemove(c)

SpecRw == Init /\ [][NextRw]_vars

\* the DashMap vault under one session and the two handlers that free keys
NextFree ==
    \/ request = <<>> /\ RandomDraws(1)
    \/ request = <<>> /\ InsertRandom(1)
    \/ request = <<>> /\ ScanStep(1)
    \/ request = <<>> /\ InsertScan(1)
    \/ request = <<>> /\ Exhausted(1)
    \/ request = <<>> /\ Release(1)
    \/ request = <<>> /\ Crash(1)
    \/ FreeGameKeyCall
    \/ PersistInteractiveGameCall
    \/ Forget

SpecFree == Init /\ [][NextFree]_vars

\* startup, then the DashMap vault under concurrent callers
NextStartup ==
    \/ LoadWordsCall
    \/ \E c \in Callers : load = "Ok" /\ RandomDraws(c)
    \/ \E c \in Callers : DrawPanics(c)
    \/ \E c \in Callers : InsertRandom(c)
    \/ \E c \in Callers : ScanStep(c)
    \/ \E c \in Callers : InsertScan(c)
    \/ \E c \in Callers : Exhausted(c)
    \/ \E c \in Callers : Release(c)
    \/ \E c \in Callers : Crash(c)

SpecStartup == InitStartup /\ [][NextStartup]_vars

\* the two handlers that allocate, under concurrent callers
NextGame ==
    \/ \E c \in Callers : RandomDraws(c)
    \/ \E c \in Callers : InsertRandom(c)
    \/ \E c \in Callers : ScanStep(c)
    \/ \E c \in Callers : InsertScan(c)
    \/ \E c \in Callers : Exhausted(c)
    \/ \E c \in Callers : HandlerReply(c)
    \/ \E c \in Callers : HasSession(c) /\ Release(c)
    \/ \E c \in Callers : HasSession(c) /\ Crash(c)

SpecGame == Init /\ [][NextGame]_vars

\* sessions that come and go while release calls arrive late or twice
NextLate ==
    \/ RandomDraws(1)
    \/ InsertRandom(1)
    \/ ScanStep(1)
    \/ InsertScan(1)
    \/ Exhausted(1)
    \/ Release(1)
    \/ Crash(1)
    \/ FreeGameKeyCall
    \/ Forget

SpecLate == Init /\ [][NextLate]_vars

\* one session, its Reclaimer, the clock, and players joining; the record of
\* a join is dropped before the next step of the others
NextJoin ==
    \/ request = <<>> /\ RandomDraws(1)
    \/ request = <<>> /\ InsertRandom(1)
    \/ request = <<>> /\ ScanStep(1)
    \/ request = <<>> /\ InsertScan(1)
    \/ request = <<>> /\ Exhausted(1)
    \/ request = <<>> /\ Release(1)
    \/ request = <<>> /\ Crash(1)
    \/ request = <<>> /\ Tick
    \/ request = <<>> /\ LenBefore
    \/ request = <<>> /\ Retain
    \/ request = <<>> /\ LenAfter
    \/ request = <<>> /\ Advance
    \/ JoinInteractiveGameCall
    \/ Forget

SpecJoin == Init /\ [][NextJoin]_vars

\* the vault of consumable words under concurrent callers and refill tasks
NextConsumable ==
    \/ \E c \in Callers : CwCreateKey(c)
    \/ \E c \in Callers : CwTakePrefix(c)
    \/ \E c \in Callers : CwTakeSuffix(c)
    \/ \E c \in Callers : CwInsert(c)
    \/ \E c \in Callers : CwRemoveKey(c)
    \/ \E c \in Callers : CwPushPrefix(c)
    \/ \E c \in Callers : CwPushSuffix(c)
    \/ CwUsedWords
    \/ CwWritePrefix
    \/ CwWriteSuffix

SpecConsumable == Init /\ [][NextConsumable]_vars

\* the vault of combined ids under concurrent callers
NextIds ==
    \/ \E c \in Callers : IdCreateKey(c)
    \/ \E c \in Callers : IdLoop(c)
    \/ \E c \in Callers : IdInsert(c)
    \/ IdRemoveKey
    \/ IdInsertThroughField

SpecIds == Init /\ [][NextIds]_vars

\* the same, where a call that can take a step takes one in the end
SpecIdsFair ==
    /\ SpecIds
    /\ \A c \in Callers : WF_vars(IdLoop(c)) /\ WF_vars(IdInsert(c))

(***************************************************************************)
(* The claims.                                                             *)
(***************************************************************************)

\* C1: while nothing has been released or reclaimed, the keys returned by the
\* successful create_key calls of different callers are pairwise distinct.
C1_ReturnedKeysDistinct ==
    ~released =>
        \A c1, c2 \in Callers :
            (c1 # c2 /\ result[c1].tag = "Ok" /\ result[c2].tag = "Ok")
                => result[c1].value # result[c2].value

\* C2: calls made one after the other, with no release, succeed exactly
\* p x s times with pairwise distinct keys: no call fails before that, every
\* call runs to its return, and once p x s keys are out a call returns
\* FullCapasity.
C2_ExactlyCapacitySuccesses ==
    ~rw_released =>
        /\ rw_oks <= Capacity
        /\ Cardinality(rw_active_keys) = rw_oks
        /\ \A c \in Callers : rw_result[c] = FullCapasity => rw_oks = Capacity
        /\ \A c \in Callers : rw_pc[c] # "idle" => ENABLED RwCallerStep(c)

\* C3: a key handed to a session that has not released it is not handed to a
\* second session: no two live sessions hold the same key.
C3_ExclusiveUse ==
    \A c1, c2 \in Callers :
        (c1 # c2 /\ held[c1] # NoKey) => held[c1] # held[c2]

\* C4: create_key returns FullCapasity only if at some instant of the call
\* every pair of the Cartesian product was in the active set.
C4_NoSpuriousExhaustion ==
    \A c \in Callers :
        (pc[c] = "idle" /\ result[c] = FullCapasity) => saw_full[c]

\* C5: a create_key call on the RwLock vault that runs alone never blocks on
\* the registry lock: while it has not returned it can take its next step.
C5_CreateKeyNeverBlocks ==
    \A c \in Callers : rw_pc[c] # "idle" => ENABLED RwCallerStep(c)

\* C6: a create_key call on the DashMap vault is one run of at most Attempts
\* draws, then at most one pass over the p x s pairs, then its return: it can
\* always take its next step, and every step brings it closer to the return,
\* whatever the other callers do to the map.
Rank(c) ==
    CASE pc[c] = "idle" -> 0
      [] pc[c] \in {"r_insert", "s_insert"} -> 1
      [] pc[c] = "scan" -> Capacity + 3 - pos[c]

C6_NonBlocking ==
    \A c \in Callers :
        pc[c] # "idle" => (ENABLED CallerStep(c) /\ Rank(c) <= Capacity + 2)

C6_Progress ==
    \A c \in Callers :
        /\ pc[c] # "idle" => Rank(c)' <= Rank(c)
        /\ (pc[c] # "idle" /\ <<pc[c], pos[c], key[c]>>' # <<pc[c], pos[c], key[c]>>)
              => Rank(c)' < Rank(c)

C6_CreateKeyBounded == [] C6_NonBlocking /\ [][C6_Progress]_vars

\* C6 witness: a call has gone through the whole pass over four pairs while
\* another call is under way.
C6_Witness ==
    \E c, d \in Callers :
        /\ c # d
        /\ Capacity = 4
        /\ pc[c] = "scan" /\ pos[c] > Capacity
        /\ pc[d] # "idle"

\* C7: every entry leaves the active set in the end, released or not: as long
\* as an entry is in the active set the Reclaimer is still running.
C7_ReclaimerOutlivesEntries ==
    active_keys # EmptyMap => rpc # "panicked"

\* C8: a pass emits one Warning event exactly when it removed an entry for
\* its age, and the count of the event is the number of entries it removed.
C8_WarningCountsRemoved ==
    rpc = "wait" =>
        /\ emitted[0] # <<>> <=> aged > 0
        /\ emitted[0] # <<>> =>
              /\ Len(emitted[0]) = 1
              /\ emitted[0][1].ceverity = "Warning"
              /\ emitted[0][1].count = UsizeSub(aged, 0)

\* C9: no interleaving of create_key or remove_key with a pass ends the
\* background task.
C9_ReclaimerNeverStops == rpc # "panicked"

\* C10: with no concurrent operation, remove_key(k) for an active k removes k
\* alone, the size goes down by one, and the next create_key call succeeds.
C10_Step ==
    \A c \in Callers :
        /\ (Release(c) /\ key_active(active_keys, held[c])) =>
              /\ DOMAIN active_keys' = DOMAIN active_keys \ {held[c]}
              /\ MapLen(active_keys') = MapLen(active_keys) - 1
              /\ \A k \in DOMAIN active_keys' : active_keys'[k] = active_keys[k]
        /\ (after_remove /\ pc[c] # "idle" /\ pc'[c] = "idle") =>
              result'[c].tag = "Ok"

C10_ReleaseFreesOne == [][C10_Step]_vars

\* C10 witness: after a release from a vault of four pairs a create_key call
\* has returned and the vault is full again.
C10_Witness ==
    /\ Capacity = 4
    /\ released
    /\ ~after_remove
    /\ IsFull(active_keys)
    /\ \E c \in Callers : result[c].tag = "Ok"

\* C11: remove_key for a key that is not active returns without error and
\* leaves the active set as it was; done a second time for the same key it
\* changes nothing, so one allocation is given back at most once.
C11_Step ==
    (call_parity' # call_parity /\ response' \in {"OK", "CREATED", "Error"}) =>
        LET tuple == ParseKeyWord(request')
        IN  /\ ~key_active(active_keys, tuple) => active_keys' = active_keys
            /\ MapLen(active_keys') >= MapLen(active_keys) - 1
            /\ RemoveKey(active_keys', tuple) = active_keys'

C11_RemoveKeyIdempotent == [][C11_Step]_vars

\* C11 witness: the same active key was freed twice in a row; the second call
\* answered OK with the key already gone and other keys still active.
C11_Witness ==
    /\ again
    /\ ~was_active
    /\ response = "OK"
    /\ Len(request) = 2
    /\ ParseKeyWord(request) \in AllKeys
    /\ active_keys # EmptyMap

\* C12: when one pair alone is free, a create_key call that runs with no other
\* operation returns that pair, whether its draws found it or all collided;
\* so after one release from a full vault the next call succeeds.
C12_Step ==
    \A c \in Callers :
        (pc[c] # "idle" /\ pc'[c] = "idle"
           /\ Cardinality(AllKeys \ DOMAIN active_keys) = 1)
        => /\ result'[c].tag = "Ok"
           /\ \A k \in AllKeys \ DOMAIN active_keys : result'[c].value = Format(k)
           /\ DOMAIN active_keys' = AllKeys

C12_LastFreePairIsFound == [][C12_Step]_vars

\* C12 witness: a vault of four pairs was full (a call was refused), a key was
\* given back, and a later call has filled the vault again.
C12_Witness ==
    /\ Cardinality(AllKeys) = 4
    /\ released
    /\ IsFull(active_keys)
    /\ \E c, d \in Callers :
         /\ result[d] = FullCapasity
         /\ result[c].tag = "Ok"
         /\ held[c] # NoKey

\* C13: the active set holds only pairs of a loaded prefix word and a loaded
\* suffix word, and never more than |prefix| x |suffix| of them.
C13_ActiveWithinVocabulary ==
    /\ \A k \in DOMAIN active_keys :
          /\ \E i \in 1..Len(prefix_words) : k[1] = prefix_words[i]
          /\ \E j \in 1..Len(suffix_words) : k[2] = suffix_words[j]
    /\ MapLen(active_keys) <= Len(prefix_words) * Len(suffix_words)

\* C13 witness: the four pairs are active and both callers are in a call, one
\* of them past the last pair of its scan.
C13_Witness ==
    /\ MapLen(active_keys) = 4
    /\ \E c, d \in Callers :
         /\ c # d
         /\ pc[c] = "scan" /\ pos[c] > 4
         /\ pc[d] = "scan"

\* C14 as stated: a create_key call returns FullCapasity exactly when it has
\* emitted one Critical event of function "create_key" whose description is
\* "vault exhausted"; a call that succeeds emits nothing.
C14_ExhaustionEventAsStated ==
    \A c \in Callers :
        /\ pc[c] = "idle" =>
             (result[c] = FullCapasity <=>
                /\ Len(emitted[c]) = 1
                /\ emitted[c][1].ceverity = "Critical"
                /\ emitted[c][1].function = "create_key"
                /\ emitted[c][1].description = "vault exhausted")
        /\ result[c].tag = "Ok" => emitted[c] = <<>>

\* C14 amended: the same with the description the code gives the event,
\* "Library failed to create random id."; the event and the error come in one
\* step, the call does not try again.
C14_ExhaustionEvent ==
    \A c \in Callers :
        /\ pc[c] = "idle" =>
             (result[c] = FullCapasity <=>
                /\ Len(emitted[c]) = 1
                /\ emitted[c][1].ceverity = "Critical"
                /\ emitted[c][1].function = "create_key"
                /\ emitted[c][1].description = "Library failed to create random id.")
        /\ pc[c] # "idle" => emitted[c] = <<>>
        /\ result[c].tag = "Ok" => emitted[c] = <<>>

\* C14 witness: one caller was refused and has emitted its event while the
\* other holds a key from a successful call.
C14_Witness ==
    \E c, d \in Callers :
        /\ pc[c] = "idle" /\ result[c] = FullCapasity /\ Len(emitted[c]) = 1
        /\ pc[d] = "idle" /\ result[d].tag = "Ok" /\ held[d] # NoKey

\* C15: whatever becomes of the logging task (turned down by log, written,
\* rejected, never completed), the create_key call that spawned it has returned FullCapasity
\* and the Reclaimer that spawned it waits for its next tick; spawning it
\* leaves the active set as it was.
C15_Outcome ==
    /\ \A c \in Callers :
         log_task[c] # "none" => (pc[c] = "idle" /\ result[c] = FullCapasity)
    /\ log_task[0] # "none" => rpc = "wait"

C15_Spawn ==
    \A e \in Callers \cup {0} :
        log_task'[e] \notin {"none", log_task[e]} => active_keys' = active_keys

C15_LoggingNeverChangesOutcome == [] C15_Outcome /\ [][C15_Spawn]_vars

\* C15 witness: the logging of the event of a refused create_key call and of
\* a Reclaimer event has failed.
C15_Witness ==
    /\ log_task[1] \in {SubjectIdRequired, "rejected"}
    /\ result[1] = FullCapasity
    /\ log_task[0] \in {SubjectIdRequired, "rejected", "never completes"}
    /\ rpc = "wait"

\* C16: load_words returns an error and builds no vault when the prefix list
\* or the suffix list is empty, both empty included, or when the query fails:
\* no vault without a pair is handed to the request handlers.
C16_NoEmptyVault ==
    /\ (db_rows.tag = "Err" \/ (db_rows.tag = "Ok" /\ (db_rows.prefix = <<>> \/ db_rows.suffix = <<>>)))
          => load \notin {"none", "Ok"}
    /\ load = "Ok" => Len(prefix_words) * Len(suffix_words) > 0

\* C17: load_words accepts a prefix list and a suffix list of different
\* lengths p and s and builds a vault of all p x s pairs.
C17_UnequalListsLoad ==
    (load # "none" /\ db_rows.tag = "Ok"
       /\ db_rows.prefix # <<>> /\ db_rows.suffix # <<>>)
    => /\ load = "Ok"
       /\ prefix_words = db_rows.prefix
       /\ suffix_words = db_rows.suffix
       /\ Capacity = Len(db_rows.prefix) * Len(db_rows.suffix)

\* C18: create_key never panics, whatever vocabulary load_words has accepted
\* (lists of 0 words and of 256 words included): every call returns a value.
C18_CreateKeyNeverPanics ==
    \A c \in Callers : pc[c] # "panicked"

\* C19: free_game_key and persist_interactive_game answer BAD_REQUEST to every
\* key string that is not exactly two tokens, one token or three and more,
\* and then leave the active set as it was.
C19_Step ==
    (call_parity' # call_parity
       /\ response' \notin {"AccessDenied", "Permission"}
       /\ Len(request') # 2)
    => /\ response' = "BAD_REQUEST"
       /\ active_keys' = active_keys

C19_MalformedKeyRejected == [][C19_Step]_vars

\* C20: in a loaded vocabulary two different pairs of indices never give the
\* same rendered string, and they are two different keys of the registry.
C20_RenderingInjective ==
    load = "Ok" =>
        \A x, y \in (0 .. Len(prefix_words) - 1) \X (0 .. Len(suffix_words) - 1) :
            x # y =>
               /\ Format(KeyAt(x[1], x[2])) # Format(KeyAt(y[1], y[2]))
               /\ KeyAt(x[1], x[2]) # KeyAt(y[1], y[2])

\* C21: the active set changes only when create_key returns a key, when a key
\* is removed and when the Reclaimer retains; a create_key call that returns
\* Ok adds one entry, the returned key, which was not there before; a call
\* that returns an error adds nothing; the vocabularies never change.
C21_Step ==
    /\ \A c \in Callers :
         (pc[c] # "idle" /\ pc'[c] = "idle") =>
            IF result'[c].tag = "Ok"
            THEN \E k \in DOMAIN active_keys' :
                    /\ k \notin DOMAIN active_keys
                    /\ DOMAIN active_keys' = DOMAIN active_keys \cup {k}
                    /\ result'[c].value = Format(k)
                    /\ \A x \in DOMAIN active_keys : active_keys'[x] = active_keys[x]
            ELSE active_keys' = active_keys
    /\ active_keys' # active_keys =>
          \/ \E c \in Callers : pc[c] \in {"r_insert", "s_insert"} /\ pc'[c] = "idle"
          \/ DOMAIN active_keys' \subseteq DOMAIN active_keys
    /\ <<word_count, prefix_words, suffix_words>>' = <<word_count, prefix_words, suffix_words>>

C21_OnlyThreeMutationPaths == [][C21_Step]_vars

\* C22: a create_key call that runs alone and whose draws all collided returns
\* the free pair of the lowest prefix index, and for that prefix the lowest
\* suffix index.
C22_Step ==
    \A c \in Callers :
        (pc[c] = "s_insert" /\ pc'[c] = "idle") =>
            \E i \in 1..Len(prefix_words), j \in 1..Len(suffix_words) :
                /\ result'[c] = Ok(prefix_words[i] \o suffix_words[j])
                /\ <<prefix_words[i], suffix_words[j]>> \notin DOMAIN active_keys
                /\ \A i2 \in 1..Len(prefix_words), j2 \in 1..Len(suffix_words) :
                      <<prefix_words[i2], suffix_words[j2]>> \notin DOMAIN active_keys
                         => (i < i2 \/ (i = i2 /\ j <= j2))

C22_ScanIsRowMajor == [][C22_Step]_vars

\* C22 witness: with Red Fox active and both Red Owl and Blue Fox free, the
\* scan of a call has stopped at Red Owl.
C22_Witness ==
    \E c \in Callers :
        /\ pc[c] = "s_insert"
        /\ Len(prefix_words) = 2
        /\ key[c] = <<prefix_words[1], suffix_words[2]>>
        /\ <<prefix_words[2], suffix_words[1]>> \notin DOMAIN active_keys
        /\ <<prefix_words[1], suffix_words[1]>> \in DOMAIN active_keys

\* C23: a pass of the Reclaimer removes the entries whose age, the time of the
\* pass minus the allocation time, is greater than TTL, and keeps every entry
\* whose age is TTL or less.
C23_Step ==
    (rpc = "retain" /\ rpc' = "len_after") =>
        \A k \in DOMAIN active_keys :
            k \in DOMAIN active_keys' <=> time - active_keys[k] <= TTL

C23_RemovesOlderThanTTL == [][C23_Step]_vars

\* C24: the bound of the random draws is the length of the vocabulary, for
\* every vocabulary load_words accepts: the draws range over every pair of
\* the Cartesian product.
C24_DrawsCoverVocabulary ==
    load = "Ok" =>
        /\ word_count = Len(prefix_words)
        /\ RandomIdx = (0 .. Len(prefix_words) - 1) \X (0 .. Len(suffix_words) - 1)

\* C25: when create_interactive_game or initiate_interactive_game answers with
\* an error after its create_key call returned a key, that key is not in the
\* active set afterwards.
C25_Step ==
    \A c \in Callers :
        (/\ reply[c] = "none"
         /\ reply'[c] \in {"BAD_REQUEST", "PayloadError", "SessionServiceError"})
            => ~key_active(active_keys', held[c])

C25_FailedHandlerLeavesNoKey == [][C25_Step]_vars

\* C26: the event the vault emits on exhaustion or on reclamation, built
\* without a subject, reaches the write of the Audit Sink: log does not turn
\* it down before the write.
C26_EventReachesSink ==
    \A x \in Callers \cup {0} :
        emitted[x] # <<>> => log_task[x] \in SinkFates

\* C27: a release of a key string that repeats a release which already removed
\* its allocation leaves alone the key that a live session holds since: the
\* second release removes nothing of a later allocation.
C27_Step ==
    (call_parity' # call_parity /\ again') =>
        \A c \in Callers :
            (held[c] # NoKey /\ key_active(active_keys, held[c]))
                => key_active(active_keys', held[c])

C27_LateReleaseSparesNewSession == [][C27_Step]_vars

\* C28: the string create_key returned splits, as the release handlers split
\* it, into the pair create_key inserted, and freeing that string removes
\* exactly that pair, for words with a space too.
C28_ReturnedStringRoundTrips ==
    \A c \in Callers :
        (pc[c] = "idle" /\ result[c].tag = "Ok" /\ held[c] # NoKey) =>
            /\ ParseKeyWord(result[c].value) = held[c]
            /\ DOMAIN FreeGameKey(active_keys, result[c].value)
                 = DOMAIN active_keys \ {held[c]}

\* C29: once persist_interactive_game has parsed the key string, the key is out
\* of the active set when the handler answers, whether the session was stored
\* (CREATED) or deserialising or storing it failed (error).
C29_Step ==
    (call_parity' # call_parity /\ response' \in {"CREATED", "Error"}) =>
        /\ ParseKeyWord(request') # NoKey
        /\ ~key_active(active_keys', ParseKeyWord(request'))
        /\ \A k \in DOMAIN active_keys :
              k # ParseKeyWord(request') => k \in DOMAIN active_keys'

C29_PersistAlwaysReleases == [][C29_Step]_vars

\* C29 witness: persist_interactive_game answered with an error for a key that
\* was active, and the key is gone.
C29_Witness ==
    /\ response = "Error"
    /\ was_active
    /\ ParseKeyWord(request) \in AllKeys
    /\ ~key_active(active_keys, ParseKeyWord(request))

\* C30: join_interactive_game answers OK for a key string of two tokens or
\* more exactly when the key it parses to is in the active set at that moment,
\* and NOT_FOUND otherwise: so NOT_FOUND after a release or a reclamation of
\* the key, until it is allocated again.
C30_Step ==
    (request' # request /\ response' \notin {"none", "AccessDenied", "BAD_REQUEST"}) =>
        /\ ParseKeyWord(request') # NoKey
        /\ response' = "OK" <=> key_active(active_keys, ParseKeyWord(request'))
        /\ response' = "NOT_FOUND" <=> ~key_active(active_keys, ParseKeyWord(request'))
        /\ active_keys' = active_keys

C30_JoinFollowsActiveSet == [][C30_Step]_vars

\* C30 witness: the key of a session that still stands was reclaimed, and a
\* join with that key was answered NOT_FOUND.
C30_Witness ==
    /\ response = "NOT_FOUND"
    /\ held[1] # NoKey
    /\ ParseKeyWord(request) = held[1]
    /\ aged > 0

\* C31: in the vault of consumable words every prefix word is in one place at
\* most, once in the prefix pool or in one active key, and so is every suffix
\* word; and a remove_key for a key that is not active leaves both pools as
\* they were.
C31_Occurrences(words, w) == Cardinality({ n \in 1..Len(words) : words[n] = w })

C31_OnePlace ==
    \A w \in CwWords :
        /\ C31_Occurrences(cw_prefix_words, w)
             + Cardinality({ k \in cw_active_keys : k[1] = w }) <= 1
        /\ C31_Occurrences(cw_suffix_words, w)
             + Cardinality({ k \in cw_active_keys : k[2] = w }) <= 1

C31_Step ==
    \A c \in Callers :
        (cw_pc[c] \in {"push_prefix", "push_suffix"} /\ cw_pc'[c] # cw_pc[c]
           /\ ~cw_was_active[c])
            => /\ cw_prefix_words' = cw_prefix_words
               /\ cw_suffix_words' = cw_suffix_words

C31_WordInOnePlace == [] C31_OnePlace /\ [][C31_Step]_vars

\* C32: in the vault of combined ids every create_key call terminates, and
\* the id it goes on to record in in_use was not in in_use when the loop
\* chose it.
C32_Terminates == \A c \in Callers : (id_pc[c] = "loop") ~> (id_pc[c] # "loop")

C32_Step ==
    \A c \in Callers :
        (id_pc[c] = "loop" /\ id_pc'[c] = "write")
            => CombinedId(id_slots'[c][1], id_slots'[c][2]) \notin id_in_use

C32_TerminatesWithUnusedId == C32_Terminates /\ [][C32_Step]_vars

====
